---- MODULE Spec2Model ----
(***************************************************************************)
(* A model of azs_helpers/l2r_helper.py: the score -> judgment converter   *)
(* (compute_judgments_after_training), the gain functions (dcg_at_k,       *)
(* ndcg_at_k), the range aggregation (get_range_ndcg, evaluate_ndcg) and   *)
(* the query escaper (escape_query).                                       *)
(*                                                                         *)
(* The functions are independent of each other's state, so each family has *)
(* its own specification over its own group of variables; the variables of *)
(* the other groups stay at their idle values:                             *)
(*   SpecEscape  escape_query                                              *)
(*   SpecGain    dcg_at_k, ndcg_at_k                                       *)
(*   SpecRange   get_range_ndcg, evaluate_ndcg                             *)
(*   SpecJudge   compute_judgments_after_training, vectors as long as the  *)
(*               boundary counts sum to                                    *)
(*   SpecShape   compute_judgments_after_training, vectors of any lengths  *)
(***************************************************************************)
EXTENDS Integers, Sequences, FiniteSets

VARIABLES
    \* escape_query: the argument, the local `query` being rewritten, the
    \* position in `characters`, and the control state
    esc_in, query, ci, pcE,
    \* dcg_at_k / ndcg_at_k: the arguments r, k, method, what the call gave
    \* back, and the control state
    r, k, method, gain_out, pcG,
    \* get_range_ndcg / evaluate_ndcg: the per-query relevance sequences, the
    \* cutoff range, the named series evaluate_ndcg was given, what the calls
    \* gave back, and the control state
    ndcgs, k_start, k_end, ranking_results, range_out, eval_out, pcR,
    \* compute_judgments_after_training: the arguments (search_score is the
    \* column X_test["@search.score"]), the loop's query_id, start and end,
    \* the three lists being built, and the control state
    predictions, search_score, y_test, query_doc_counts,
    query_id, start, end, model_judgments, azs_judgments, baseline, pcJ

escVars == <<esc_in, query, ci, pcE>>

gainVars == <<r, k, method, gain_out, pcG>>

rangeVars == <<ndcgs, k_start, k_end, ranking_results, range_out, eval_out, pcR>>

judgeVars == <<predictions, search_score, y_test, query_doc_counts,
               query_id, start, end, model_judgments, azs_judgments, baseline, pcJ>>

vars == <<escVars, gainVars, rangeVars, judgeVars>>

-----------------------------------------------------------------------------
(* Generic helpers                                                         *)

Min(a, b) == IF a < b THEN a ELSE b

Max(a, b) == IF a > b THEN a ELSE b

\* All sequences over S of length at most n.
SeqsUpTo(S, n) == UNION {[1..m -> S] : m \in 0..n}

RECURSIVE Concat(_)
\* The concatenation of a sequence of sequences.
Concat(ss) == IF ss = <<>> THEN <<>> ELSE Head(ss) \o Concat(Tail(ss))

-----------------------------------------------------------------------------
(* escape_query                                                            *)

\* Longest query string drawn as an input.
MaxQueryLen == 3

\* A character is a one-character string; "\\" is the single backslash.

\* The same characters with the backslash visited last instead of first.
BackslashLast ==
    << "+", "-", "&", "|", "!", "(", ")", "{", "}", "[", "]", "^",
       "\"", "~", "*", "?", ":", "/", "\\" >>

\* The list `characters`, in the order the loop visits it.
characters ==
    << "\\", "+", "-", "&", "|", "!", "(", ")", "{", "}", "[", "]", "^",
       "\"", "~", "*", "?", ":", "/" >>

\* The characters an input string is drawn from: the first, a middle and the
\* last entry of `characters`, and two characters that are not in it.
QueryAlphabet == {"\\", "+", "/", "a", " "}

\* str.replace(character, "\\" + character): every occurrence, left to right.
replace(q, character) ==
    Concat([i \in 1..Len(q) |->
              IF q[i] = character THEN <<"\\", character>> ELSE <<q[i]>>])

EscapeIdle ==
    /\ esc_in = <<>>
    /\ query = <<>>
    /\ ci = 0
    /\ pcE = "idle"

EscapeInit ==
    /\ esc_in \in SeqsUpTo(QueryAlphabet, MaxQueryLen)
    /\ query = esc_in
    /\ ci = 1
    /\ pcE = "loop"

\* One iteration of `for character in characters`.
EscapeStep ==
    /\ pcE = "loop"
    /\ ci <= Len(characters)
    /\ query' = replace(query, characters[ci])
    /\ ci' = ci + 1
    /\ UNCHANGED <<esc_in, pcE>>
    /\ UNCHANGED <<gainVars, rangeVars, judgeVars>>

\* `return query`, once the list is exhausted.
EscapeReturn ==
    /\ pcE = "loop"
    /\ ci > Len(characters)
    /\ pcE' = "done"
    /\ UNCHANGED <<esc_in, query, ci>>
    /\ UNCHANGED <<gainVars, rangeVars, judgeVars>>

EscapeNext == EscapeStep \/ EscapeReturn

-----------------------------------------------------------------------------
(* Numbers                                                                 *)
(*                                                                         *)
(* A number is [kind, num, den], standing for num / den.  kind tells a     *)
(* Python float ("py") from a numpy float64 ("np"): the two divide by zero *)
(* differently.  kind "nan" is numpy's result of 0 / 0, and the kinds      *)
(* "ValueError" and "ZeroDivisionError" are raised exceptions.             *)

PyFloat(n, d) == [kind |-> "py", num |-> n, den |-> d]

NpFloat(n, d) == [kind |-> "np", num |-> n, den |-> d]

NaN == [kind |-> "nan", num |-> 0, den |-> 0]

Raised(e) == [kind |-> e, num |-> 0, den |-> 0]

IsNumber(x) == x.kind \in {"int", "py", "np"}

RECURSIVE GCD(_, _)
GCD(a, b) == IF b = 0 THEN a ELSE GCD(b, a % b)

\* num / den in lowest terms (num, den >= 0, den > 0).
Reduce(x) ==
    LET g == GCD(x.num, x.den)
    IN  [kind |-> x.kind, num |-> x.num \div g, den |-> x.den \div g]

\* Division as numpy alone would do it: nan, never an exception.
divide_as_numpy(a, b) ==
    IF b.num = 0 THEN NaN
    ELSE [kind |-> "np", num |-> a.num * b.den, den |-> a.den * b.num]

\* a / b.  A numpy float64 on either side makes the division numpy's, which
\* gives nan for 0 / 0 (with a warning) where Python raises.
Divide(a, b) ==
    IF b.num = 0
    THEN IF "np" \in {a.kind, b.kind} THEN NaN ELSE Raised("ZeroDivisionError")
    ELSE Reduce([kind |-> IF "np" \in {a.kind, b.kind} THEN "np" ELSE "py",
                 num  |-> a.num * b.den,
                 den  |-> a.den * b.num])

\* a + b: a numpy float64 if either is one, else a Python float.
Add(a, b) ==
    Reduce([kind |-> IF "np" \in {a.kind, b.kind} THEN "np" ELSE "py",
            num  |-> a.num * b.den + b.num * a.den,
            den  |-> a.den * b.den])

-----------------------------------------------------------------------------
(* dcg_at_k, ndcg_at_k                                                     *)

\* Largest relevance grade, longest relevance sequence and largest cutoff
\* drawn as inputs of the gain functions.
MaxRel == 2
MaxLen == 3
MaxK == 4

\* 1 / log2(i + 1) for i = 1, 2, ... in hundredths: the discounts the
\* docstring lists as 1.0, 0.6309, 0.5, 0.4307, ...
InvLog2 == <<100, 63, 50, 43, 39, 36, 33, 32>>

\* The values of `method` tried: the two supported ones and two others.
Methods == {0, 1, 2, -1}

RelSeqs == SeqsUpTo(0..MaxRel, MaxLen)

RECURSIVE SumTo(_, _)
\* f[1] + ... + f[n]
SumTo(f, n) == IF n = 0 THEN 0 ELSE f[n] + SumTo(f, n - 1)

\* r as it is, whatever the cutoff.
NoTruncate(rr, kk) == rr

\* np.asfarray(r)[:k]: the first k entries, all of r if it has fewer; a
\* negative k drops the last -k entries instead.
Truncate(rr, kk) ==
    SubSeq(rr, 1, IF kk >= 0 THEN Min(kk, Len(rr)) ELSE Max(0, Len(rr) + kk))

RECURSIVE sorted_reverse(_)
\* sorted(r, reverse=True)
sorted_reverse(rr) ==
    IF rr = <<>> THEN <<>>
    ELSE LET m == CHOOSE x \in {rr[i] : i \in 1..Len(rr)} :
                      \A i \in 1..Len(rr) : rr[i] <= x
             p == CHOOSE i \in 1..Len(rr) : rr[i] = m
         IN  <<m>> \o sorted_reverse(SubSeq(rr, 1, p - 1) \o SubSeq(rr, p + 1, Len(rr)))

dcg_at_k(rr, kk, mm) ==
    LET t == Truncate(rr, kk)
        n == Len(t)
    IN  IF n > 0
        THEN IF mm = 0
             THEN NpFloat(t[1] * InvLog2[1]
                            + SumTo([i \in 1..n |-> IF i = 1 THEN 0 ELSE t[i] * InvLog2[i - 1]], n),
                          InvLog2[1])
             ELSE IF mm = 1
             THEN NpFloat(SumTo([i \in 1..n |-> t[i] * InvLog2[i]], n), InvLog2[1])
             ELSE Raised("ValueError")
        ELSE PyFloat(0, 1)

\* The quotient without the `if not dcg_max` guard.
ndcg_unguarded(rr, kk, mm) ==
    Divide(dcg_at_k(rr, kk, mm), dcg_at_k(sorted_reverse(rr), kk, mm))

ndcg_at_k(rr, kk, mm) ==
    LET dcg_max == dcg_at_k(sorted_reverse(rr), kk, mm)
    IN  IF ~IsNumber(dcg_max) THEN dcg_max
        ELSE IF dcg_max.num = 0 THEN PyFloat(0, 1)
        ELSE Divide(dcg_at_k(rr, kk, mm), dcg_max)

NoCall == Raised("none")

GainIdle ==
    /\ r = <<>>
    /\ k = 0
    /\ method = 0
    /\ gain_out = NoCall
    /\ pcG = "idle"

GainInit ==
    /\ r \in RelSeqs
    /\ k \in -1..MaxK
    /\ method \in Methods
    /\ gain_out = NoCall
    /\ pcG = "call"

\* A call dcg_at_k(r, k, method).
CallDcg ==
    /\ pcG = "call"
    /\ gain_out' = dcg_at_k(r, k, method)
    /\ pcG' = "dcg"
    /\ UNCHANGED <<r, k, method>>
    /\ UNCHANGED <<escVars, rangeVars, judgeVars>>

\* A call ndcg_at_k(r, k, method).
CallNdcg ==
    /\ pcG = "call"
    /\ gain_out' = ndcg_at_k(r, k, method)
    /\ pcG' = "ndcg"
    /\ UNCHANGED <<r, k, method>>
    /\ UNCHANGED <<escVars, rangeVars, judgeVars>>

GainNext == CallDcg \/ CallNdcg

-----------------------------------------------------------------------------
(* get_range_ndcg, evaluate_ndcg                                           *)

\* Most queries in a series, most documents in a query and largest cutoff
\* drawn as inputs of the range functions.
MaxQueries == 2
MaxQueryDocs == 2
MaxCutoff == 3

\* The relevance grades of the range functions' inputs ("can use binary").
BinaryRel == {0, 1}

Series == SeqsUpTo(SeqsUpTo(BinaryRel, MaxQueryDocs), MaxQueries)

\* The series evaluate_ndcg is given besides `ndcgs`: none, one whose only
\* query has no relevant document, or one whose only query has one.
ExtraSeries == { <<>>, << << <<0>> >> >>, << << <<1>> >> >> }

IntNum(n) == [kind |-> "int", num |-> n, den |-> 1]

\* Every query counted, whatever its NDCG.
counted_always(current_ndcg) == 1

\* `if current_ndcg != 0: count += 1`
counted(current_ndcg) == IF current_ndcg.num # 0 THEN 1 ELSE 0

RECURSIVE query_loop(_, _, _, _, _)
\* `for ndcg_input in ndcgs`, from the i-th query on: the final
\* (ndcg_sum, count).
query_loop(qs, kk, i, ndcg_sum, count) ==
    IF i > Len(qs) THEN [ndcg_sum |-> ndcg_sum, count |-> count]
    ELSE LET current_ndcg == ndcg_at_k(qs[i], kk, 0)
         IN  query_loop(qs, kk, i + 1, Add(ndcg_sum, current_ndcg),
                        count + counted(current_ndcg))

\* `ndcg_sum / count` for cutoff kk.
average_at(qs, kk) ==
    LET acc == query_loop(qs, kk, 1, IntNum(0), 0)
    IN  Divide(acc.ndcg_sum, IntNum(acc.count))

RECURSIVE range_loop(_, _, _, _)
\* `for k in range(k_start, k_end)`, from cutoff kk on.
range_loop(qs, kk, kend, results) ==
    IF kk >= kend THEN [status |-> "ok", results |-> results]
    ELSE LET avg == average_at(qs, kk)
         IN  IF avg.kind = "ZeroDivisionError"
             THEN [status |-> "ZeroDivisionError", results |-> <<>>]
             ELSE range_loop(qs, kk + 1, kend, Append(results, avg))

get_range_ndcg(qs, kstart, kend) == range_loop(qs, kstart, kend, <<>>)

RECURSIVE evaluate_loop(_, _, _, _, _)
\* `for key, value in ranking_results.items()`, from the i-th series on.
evaluate_loop(kstart, kend, rs, i, d) ==
    IF i > Len(rs) THEN [status |-> "ok", table |-> d]
    ELSE LET col == get_range_ndcg(rs[i], kstart, kend + 1)
         IN  IF col.status # "ok"
             THEN [status |-> col.status, table |-> <<>>]
             ELSE evaluate_loop(kstart, kend, rs, i + 1, Append(d, col.results))

\* evaluate_ndcg with plot=False: the table's columns, one per series.
evaluate_ndcg(kstart, kend, rs) == evaluate_loop(kstart, kend, rs, 1, <<>>)

RangeIdle ==
    /\ ndcgs = <<>>
    /\ k_start = 0
    /\ k_end = 0
    /\ ranking_results = <<>>
    /\ range_out = [status |-> "none", results |-> <<>>]
    /\ eval_out = [status |-> "none", table |-> <<>>]
    /\ pcR = "idle"

RangeInit ==
    /\ ndcgs \in Series
    /\ k_start \in -1..MaxCutoff
    /\ k_end \in -1..MaxCutoff
    /\ ranking_results = <<>>
    /\ range_out = [status |-> "none", results |-> <<>>]
    /\ eval_out = [status |-> "none", table |-> <<>>]
    /\ pcR = "call"

\* A call get_range_ndcg(ndcgs, k_start, k_end).
GetRangeNdcg ==
    /\ pcR = "call"
    /\ range_out' = get_range_ndcg(ndcgs, k_start, k_end)
    /\ pcR' = "ranged"
    /\ UNCHANGED <<ndcgs, k_start, k_end, ranking_results, eval_out>>
    /\ UNCHANGED <<escVars, gainVars, judgeVars>>

\* A call evaluate_ndcg(k_start, k_end, **ranking_results) with `ndcgs` as
\* the first series.
EvaluateNdcg ==
    /\ pcR = "call"
    /\ \E extra \in ExtraSeries :
          /\ ranking_results' = <<ndcgs>> \o extra
          /\ eval_out' = evaluate_ndcg(k_start, k_end, ranking_results')
    /\ pcR' = "evaluated"
    /\ UNCHANGED <<ndcgs, k_start, k_end, range_out>>
    /\ UNCHANGED <<escVars, gainVars, judgeVars>>

RangeNext == GetRangeNdcg \/ EvaluateNdcg

-----------------------------------------------------------------------------
(* compute_judgments_after_training                                        *)
(*                                                                         *)
(* A score is an integer (only the order of scores is read).  A label is   *)
(* an integer n standing for the judgment n / LabelResolution, so that     *)
(* labels that are not whole numbers are among the inputs.  The function's *)
(* three results are modelled as the three lists it builds, before         *)
(* np.array packs them (into arrays of per-query arrays, the docstring's   *)
(* "dynamic shape").                                                       *)

\* Labels are multiples of 1 / LabelResolution, from 0 to MaxLabel of them.
LabelResolution == 2
MaxLabel == 3

\* Most documents in all queries together (SpecJudge).
MaxDocs == 3

\* Longest vector, largest boundary count and most queries (SpecShape).
MaxVec == 2
MaxCount == 2
MaxBoundaries == 2

ScoreValues == {0, 1, 2}

SearchScoreValues == {0, 1}

LabelValues == 0..MaxLabel

\* The scores and labels of SpecShape, where the lengths are what varies.
ShapeScores == {0, 1}
ShapeLabels == {0, LabelResolution}

RECURSIVE SumSeq(_)
SumSeq(s) == IF s = <<>> THEN 0 ELSE Head(s) + SumSeq(Tail(s))

\* A slice that always has e - s elements, 0 where v has none.
slice_padded(v, s, e) == [i \in 1..(e - s) |-> IF s + i <= Len(v) THEN v[s + i] ELSE 0]

\* v[s:e] for 0 <= s <= e: a slice is cut to the elements v has.
slice(v, s, e) == SubSeq(v, Min(s, Len(v)) + 1, Min(e, Len(v)))

\* argsort(): the index orders that put the scores in ascending order.  The
\* sort is not stable, so tied scores may come out in any order.
argsort(scores) ==
    {p \in [1..Len(scores) -> 1..Len(scores)] :
        /\ \A i, j \in 1..Len(scores) : i # j => p[i] # p[j]
        /\ \A i, j \in 1..Len(scores) : i < j => scores[p[i]] <= scores[p[j]]}

RECURSIVE sort_values(_)
\* Series.sort_values(): the labels in ascending order.
sort_values(ls) ==
    IF ls = <<>> THEN <<>>
    ELSE LET m == CHOOSE x \in {ls[i] : i \in 1..Len(ls)} :
                      \A i \in 1..Len(ls) : x <= ls[i]
             p == CHOOSE i \in 1..Len(ls) : ls[i] = m
         IN  <<m>> \o sort_values(SubSeq(ls, 1, p - 1) \o SubSeq(ls, p + 1, Len(ls)))

\* A value stored into an array of the dtype of the sort indices (int64):
\* the fraction is cut off.
astype_int(v) == (v \div LabelResolution) * LabelResolution

\* Whether `out[idxs] = vals` is accepted: vals must have one value per
\* index, or a single value that is stored at every index.
broadcastable(nvals, nidxs) == nvals = nidxs \/ nvals = 1

\* out = np.empty_like(idxs); out[idxs] = vals
scatter(idxs, vals) ==
    [i \in 1..Len(idxs) |->
        LET p == CHOOSE q \in 1..Len(idxs) : idxs[q] = i
        IN  astype_int(IF Len(vals) = 1 THEN vals[1] ELSE vals[p])]

JudgeIdle ==
    /\ predictions = <<>>
    /\ search_score = <<>>
    /\ y_test = <<>>
    /\ query_doc_counts = <<>>
    /\ query_id = 0
    /\ start = 0
    /\ end = 0
    /\ model_judgments = <<>>
    /\ azs_judgments = <<>>
    /\ baseline = <<>>
    /\ pcJ = "idle"

JudgeStart ==
    /\ query_id = 1
    /\ start = 0
    /\ end = 0
    /\ model_judgments = <<>>
    /\ azs_judgments = <<>>
    /\ baseline = <<>>
    /\ pcJ = "loop"

\* The three vectors are as long as the boundary counts sum to.
JudgeInit ==
    /\ query_doc_counts \in {c \in SeqsUpTo(1..MaxDocs, MaxDocs) : SumSeq(c) <= MaxDocs}
    /\ predictions \in [1..SumSeq(query_doc_counts) -> ScoreValues]
    /\ search_score \in [1..SumSeq(query_doc_counts) -> SearchScoreValues]
    /\ y_test \in [1..SumSeq(query_doc_counts) -> LabelValues]
    /\ JudgeStart

\* The three vectors and the boundary counts are chosen independently.
ShapeInit ==
    /\ query_doc_counts \in SeqsUpTo(1..MaxCount, MaxBoundaries)
    /\ predictions \in SeqsUpTo(ShapeScores, MaxVec)
    /\ search_score \in SeqsUpTo(ShapeScores, MaxVec)
    /\ y_test \in SeqsUpTo(ShapeLabels, MaxVec)
    /\ JudgeStart

\* One iteration of `for query_id, query_doc_count in enumerate(...)`.  A
\* scatter whose shapes do not match raises ValueError and ends the call.
QueryStep ==
    /\ pcJ = "loop"
    /\ query_id <= Len(query_doc_counts)
    /\ start' = end
    /\ end' = end + query_doc_counts[query_id]
    /\ LET relevance_scores == slice(predictions, start', end')
           azs_scores == slice(search_score, start', end')
           labels == slice(y_test, start', end')
       IN  \E sorted_idxs \in argsort(relevance_scores),
              sorted_azs_idxs \in argsort(azs_scores) :
             IF /\ broadcastable(Len(labels), Len(sorted_idxs))
                /\ broadcastable(Len(labels), Len(sorted_azs_idxs))
             THEN /\ model_judgments' =
                       Append(model_judgments, scatter(sorted_idxs, sort_values(labels)))
                  /\ azs_judgments' =
                       Append(azs_judgments, scatter(sorted_azs_idxs, sort_values(labels)))
                  /\ baseline' = Append(baseline, labels)
                  /\ query_id' = query_id + 1
                  /\ pcJ' = "loop"
             ELSE /\ model_judgments' = <<>>
                  /\ azs_judgments' = <<>>
                  /\ baseline' = <<>>
                  /\ query_id' = query_id
                  /\ pcJ' = "ValueError"
    /\ UNCHANGED <<predictions, search_score, y_test, query_doc_counts>>
    /\ UNCHANGED <<escVars, gainVars, rangeVars>>

\* `return`, once every boundary count has been used.
JudgeReturn ==
    /\ pcJ = "loop"
    /\ query_id > Len(query_doc_counts)
    /\ pcJ' = "done"
    /\ UNCHANGED <<predictions, search_score, y_test, query_doc_counts,
                   query_id, start, end, model_judgments, azs_judgments, baseline>>
    /\ UNCHANGED <<escVars, gainVars, rangeVars>>

JudgeNext == QueryStep \/ JudgeReturn

-----------------------------------------------------------------------------
(* Specifications                                                          *)

InitEscape == EscapeInit /\ GainIdle /\ RangeIdle /\ JudgeIdle

InitGain == EscapeIdle /\ GainInit /\ RangeIdle /\ JudgeIdle

InitRange == EscapeIdle /\ GainIdle /\ RangeInit /\ JudgeIdle

InitJudge == EscapeIdle /\ GainIdle /\ RangeIdle /\ JudgeInit

InitShape == EscapeIdle /\ GainIdle /\ RangeIdle /\ ShapeInit

SpecEscape == InitEscape /\ [][EscapeNext]_vars

SpecGain == InitGain /\ [][GainNext]_vars

SpecRange == InitRange /\ [][RangeNext]_vars

SpecJudge == InitJudge /\ [][JudgeNext]_vars

SpecShape == InitShape /\ [][JudgeNext]_vars

-----------------------------------------------------------------------------
(* Properties of escape_query                                              *)

Reserved == {characters[i] : i \in 1..Len(characters)}

\* The escaping the interface describes: one backslash before each reserved
\* character, everything else unchanged and in order.
Escaped(s) ==
    Concat([i \in 1..Len(s) |->
              IF s[i] \in Reserved THEN <<"\\", s[i]>> ELSE <<s[i]>>])

Occurrences(s, c) == Cardinality({i \in 1..Len(s) : s[i] = c})

ReservedIn(s) == Cardinality({i \in 1..Len(s) : s[i] \in Reserved})

\* C8: escape_query returns its input with every reserved character prefixed
\* by exactly one backslash and every other character unchanged and in order;
\* the backslashes it inserts are not escaped again, and each backslash of
\* the input has become exactly two.
C8_EscapeExact ==
    pcE = "done" =>
        /\ query = Escaped(esc_in)
        /\ Len(query) = Len(esc_in) + ReservedIn(esc_in)
        /\ Occurrences(query, "\\") = ReservedIn(esc_in) + Occurrences(esc_in, "\\")

\* A finished call on an input holding a backslash after another reserved
\* character, and a character that is not reserved.
C8_Witness ==
    /\ pcE = "done"
    /\ \E i, j, l \in 1..Len(esc_in) :
          /\ i < j
          /\ esc_in[i] = "+"
          /\ esc_in[j] = "\\"
          /\ esc_in[l] = "a"

-----------------------------------------------------------------------------
(* Properties of dcg_at_k and ndcg_at_k                                    *)

AllZero(rel) == \A i \in 1..Len(rel) : rel[i] = 0

\* C4: ndcg_at_k with a supported method never divides by zero: when the DCG
\* of r sorted descending and truncated at k is zero it returns exactly 0.0,
\* and for a cutoff k >= 0 that is when every relevance is zero, r is empty
\* or k = 0; otherwise it returns dcg_at_k(r, k, method) divided by
\* dcg_at_k(sorted_descending(r), k, method).
C4_NdcgGuardsZeroIdeal ==
    (pcG = "ndcg" /\ method \in {0, 1}) =>
        LET ideal == dcg_at_k(sorted_reverse(r), k, method)
        IN  /\ gain_out.kind \in {"py", "np"}
            /\ k >= 0 => (ideal.num = 0 <=> (AllZero(r) \/ k = 0))
            /\ ideal.num = 0 => gain_out = PyFloat(0, 1)
            /\ ideal.num # 0 =>
                  /\ gain_out.den # 0
                  /\ gain_out.num * ideal.num = dcg_at_k(r, k, method).num * gain_out.den

\* ndcg_at_k returned for relevances that are all zero, with a cutoff that
\* keeps some of them.
C4_Witness ==
    /\ pcG = "ndcg"
    /\ method \in {0, 1}
    /\ k >= 1
    /\ Len(r) >= 2
    /\ AllZero(r)
    /\ gain_out = PyFloat(0, 1)

\* C5: dcg_at_k, and ndcg_at_k which delegates to it, fail with an
\* invalid-argument error for every method other than 0 or 1, whatever r and
\* k are, an empty r or a k that truncates r to nothing included.
C5_BadMethodAlwaysRaises ==
    (pcG \in {"dcg", "ndcg"} /\ method \notin {0, 1}) => gain_out.kind = "ValueError"

\* C7: dcg_at_k truncates and never pads: with a supported method, a cutoff
\* k at or beyond the length n of r gives dcg_at_k(r, n, method), and for
\* 0 <= k < n every sequence with the same first k entries gives the same
\* result.
C7_TruncatesNeverPads ==
    (pcG = "dcg" /\ method \in {0, 1}) =>
        /\ k >= Len(r) => gain_out = dcg_at_k(r, Len(r), method)
        /\ (0 <= k /\ k < Len(r)) =>
              \A r2 \in RelSeqs :
                  (Len(r2) >= k /\ \A i \in 1..k : r2[i] = r[i])
                     => dcg_at_k(r2, k, method) = gain_out

\* dcg_at_k returned for a cutoff beyond the end of a sequence whose last
\* entry counts.
C7_Witness ==
    /\ pcG = "dcg"
    /\ method \in {0, 1}
    /\ Len(r) >= 2
    /\ k > Len(r)
    /\ r[Len(r)] # 0
    /\ gain_out.num > r[1] * InvLog2[1]

-----------------------------------------------------------------------------
(* Properties of get_range_ndcg and evaluate_ndcg                          *)

Cutoffs(a, b) == a..(b - 1)

Ndcg(qs, q, kk) == ndcg_at_k(qs[q], kk, 0)

NonZeroQueries(qs, kk) == {q \in 1..Len(qs) : Ndcg(qs, q, kk).num # 0}

RECURSIVE DenProduct(_, _, _)
\* The product of the denominators of the first n queries' NDCG at kk.
DenProduct(qs, kk, n) ==
    IF n = 0 THEN 1 ELSE Ndcg(qs, n, kk).den * DenProduct(qs, kk, n - 1)

RECURSIVE NumSum(_, _, _, _)
\* The sum of the first n queries' NDCG at kk, as a numerator over d.
NumSum(qs, kk, n, d) ==
    IF n = 0 THEN 0
    ELSE Ndcg(qs, n, kk).num * (d \div Ndcg(qs, n, kk).den) + NumSum(qs, kk, n - 1, d)

\* The sum of every query's NDCG at kk over the number of queries whose NDCG
\* at kk is not zero (nan when there is none), in lowest terms.
MeanOverNonZero(qs, kk) ==
    LET d == DenProduct(qs, kk, Len(qs))
        n == NumSum(qs, kk, Len(qs), d)
        c == Cardinality(NonZeroQueries(qs, kk))
    IN  IF c = 0 THEN NaN ELSE Reduce(NpFloat(n, d * c))

\* C3: get_range_ndcg returns one value per cutoff k of [k_start, k_end), in
\* increasing k (k_end - k_start values); the value for k is the sum of
\* ndcg_at_k(q, k) over all queries divided by the number of queries whose
\* ndcg_at_k(q, k) is not zero, not by the number of queries.
C3_RangeAverages ==
    (pcR = "ranged" /\ range_out.status = "ok") =>
        /\ Len(range_out.results) = Cardinality(Cutoffs(k_start, k_end))
        /\ k_start <= k_end => Len(range_out.results) = k_end - k_start
        /\ \A j \in 1..Len(range_out.results) :
              range_out.results[j] = MeanOverNonZero(ndcgs, k_start + j - 1)

\* A returned list of two or more averages over a mixed set: at every cutoff
\* some query has a non-zero NDCG and some query has not, one of them a query
\* without a relevant document.
C3_Witness ==
    /\ pcR = "ranged"
    /\ range_out.status = "ok"
    /\ Len(range_out.results) >= 2
    /\ \E q \in 1..Len(ndcgs) : ndcgs[q] # <<>> /\ AllZero(ndcgs[q])
    /\ \A kk \in Cutoffs(k_start, k_end) :
          /\ Cardinality(NonZeroQueries(ndcgs, kk)) >= 1
          /\ Cardinality(NonZeroQueries(ndcgs, kk)) < Len(ndcgs)

\* The number of entries of a relevance sequence of length n that cutoff kk
\* keeps.
Kept(n, kk) == IF kk >= 0 THEN Min(kk, n) ELSE Max(0, n + kk)

\* The best ordering of rel has no gain within cutoff kk.
IdealZero(rel, kk) == Kept(Len(rel), kk) = 0 \/ AllZero(rel)

\* Some cutoff of [a, b) at which no query of qs has an achievable gain.
HasDeadCutoff(qs, a, b) ==
    \E kk \in Cutoffs(a, b) : \A q \in 1..Len(qs) : IdealZero(qs[q], kk)

\* C10 as the specification states it, for cutoffs from 0 on: if at some cutoff of
\* [k_start, k_end) no query has a non-zero NDCG, get_range_ndcg fails with a
\* division-by-zero error and returns no list.
C10_NoNonZeroQueryRaises ==
    (/\ pcR = "ranged"
     /\ k_start >= 0
     /\ \E kk \in Cutoffs(k_start, k_end) : NonZeroQueries(ndcgs, kk) = {})
        => range_out.status = "ZeroDivisionError"

\* C10, with the failing case narrowed: get_range_ndcg fails with a division-by-zero error, and
\* returns no list, exactly when at some cutoff of [k_start, k_end) every
\* query's ideal DCG is zero; a cutoff at which every NDCG is zero while some
\* query's ideal DCG is not puts nan in the returned list.  evaluate_ndcg
\* fails, and returns no table, exactly when one of its series has such a
\* cutoff in [k_start, k_end].
C10_ZeroIdealRaises ==
    /\ pcR = "ranged" =>
          /\ range_out.status \in {"ok", "ZeroDivisionError"}
          /\ range_out.status = "ZeroDivisionError"
                <=> HasDeadCutoff(ndcgs, k_start, k_end)
          /\ range_out.status = "ZeroDivisionError" => range_out.results = <<>>
          /\ range_out.status = "ok" =>
                \A j \in 1..Len(range_out.results) :
                    NonZeroQueries(ndcgs, k_start + j - 1) = {}
                       => range_out.results[j] = NaN
    /\ pcR = "evaluated" =>
          /\ eval_out.status \in {"ok", "ZeroDivisionError"}
          /\ eval_out.status = "ZeroDivisionError"
                <=> \E i \in 1..Len(ranking_results) :
                       HasDeadCutoff(ranking_results[i], k_start, k_end + 1)
          /\ eval_out.status = "ZeroDivisionError" => eval_out.table = <<>>

\* get_range_ndcg failed at a cutoff that is not the first of the range,
\* after a cutoff at which some query had a non-zero NDCG.
C10_Witness ==
    /\ pcR = "ranged"
    /\ range_out.status = "ZeroDivisionError"
    /\ k_start < k_end
    /\ NonZeroQueries(ndcgs, k_start) # {}

-----------------------------------------------------------------------------
(* Properties of compute_judgments_after_training                          *)

\* Where query q's slice starts and ends, by running sum of the counts.
QStart(q) == SumSeq(SubSeq(query_doc_counts, 1, q - 1))

QEnd(q) == QStart(q) + query_doc_counts[q]

\* How many elements of v lie in query q's slice.
SpanLen(v, q) == Min(QEnd(q), Len(v)) - Min(QStart(q), Len(v))

\* The elements of v in query q's slice.
Span(v, q) == [i \in 1..SpanLen(v, q) |-> v[Min(QStart(q), Len(v)) + i]]

StrictlyIncreasing(s) == \A i, j \in 1..Len(s) : i < j => s[i] < s[j]

Distinct(s) == \A i, j \in 1..Len(s) : i # j => s[i] # s[j]

SameBag(a, b) ==
    /\ Len(a) = Len(b)
    /\ \A v \in {a[i] : i \in 1..Len(a)} \cup {b[i] : i \in 1..Len(b)} :
          Occurrences(a, v) = Occurrences(b, v)

\* The n-th smallest element of s, counting from 0.
NthSmallest(s, n) ==
    CHOOSE x \in {s[i] : i \in 1..Len(s)} :
        /\ Cardinality({i \in 1..Len(s) : s[i] < x}) <= n
        /\ n < Cardinality({i \in 1..Len(s) : s[i] <= x})

\* The number of scores of s strictly below s[i].
RankOf(s, i) == Cardinality({j \in 1..Len(s) : s[j] < s[i]})

\* out is the inverse-permutation scatter of labels by scores.
IsScatter(out, scores, labels) ==
    /\ Len(out) = Len(scores)
    /\ \A i \in 1..Len(scores) : out[i] = NthSmallest(labels, RankOf(scores, i))

SumsMatch ==
    /\ SumSeq(query_doc_counts) = Len(predictions)
    /\ SumSeq(query_doc_counts) = Len(search_score)
    /\ SumSeq(query_doc_counts) = Len(y_test)

WholeLabels == \A i \in 1..Len(y_test) : y_test[i] % LabelResolution = 0

\* C1: for every query whose model scores are strictly increasing by
\* position and whose labels are strictly increasing in the same positions,
\* the model judgment array equals the query's label slice.
C1_AgreeingOrderReproducesLabels ==
    pcJ = "done" =>
        \A q \in 1..Len(query_doc_counts) :
            (/\ StrictlyIncreasing(Span(predictions, q))
             /\ StrictlyIncreasing(Span(y_test, q)))
                => model_judgments[q] = Span(y_test, q)

\* C2: when the counts sum to the vectors' length, each query's model
\* judgments and secondary judgments are a rearrangement of its label slice
\* (same multiset), so as many as its count says.
C2_JudgmentsRearrangeLabels ==
    (pcJ = "done" /\ SumsMatch) =>
        \A q \in 1..Len(query_doc_counts) :
            /\ SameBag(model_judgments[q], Span(y_test, q))
            /\ SameBag(azs_judgments[q], Span(y_test, q))
            /\ Len(model_judgments[q]) = query_doc_counts[q]
            /\ Len(azs_judgments[q]) = query_doc_counts[q]

\* C9: for a slice with pairwise distinct scores the judgment at index i is
\* the n-th smallest label of the slice, n being the number of scores of the
\* slice below score[i]; the secondary output is the same scatter by the
\* secondary scores, and the baseline is the label slice itself.
C9_InverseScatter ==
    pcJ = "done" =>
        \A q \in 1..Len(query_doc_counts) :
            /\ Distinct(Span(predictions, q))
                  => IsScatter(model_judgments[q], Span(predictions, q), Span(y_test, q))
            /\ Distinct(Span(search_score, q))
                  => IsScatter(azs_judgments[q], Span(search_score, q), Span(y_test, q))
            /\ baseline[q] = Span(y_test, q)

\* What C1, C2 and C9 say, for labels that are whole numbers: the case in
\* which storing a label as an integer changes nothing.
Judgments_OnWholeLabels ==
    WholeLabels =>
        /\ C1_AgreeingOrderReproducesLabels
        /\ C2_JudgmentsRearrangeLabels
        /\ C9_InverseScatter

\* The label slice of query q fits both of its score slices.
Fits(q) ==
    /\ broadcastable(SpanLen(y_test, q), SpanLen(predictions, q))
    /\ broadcastable(SpanLen(y_test, q), SpanLen(search_score, q))

\* C6 as the specification states it: when the counts do not sum to the length of the score
\* vector, the label vector or the auxiliary table, the call fails with an
\* out-of-range error: it never returns with a per-query array that is
\* shorter than the query's count, or empty.
C6_MismatchNeverReturns ==
    ~SumsMatch =>
        ~(/\ pcJ = "done"
          /\ \E q \in 1..Len(query_doc_counts) :
                Len(model_judgments[q]) < query_doc_counts[q])

\* C6, as the code has it: no slice raises; each is cut to the elements its vector
\* has.  The call fails, with a shape-mismatch ValueError from the scatter,
\* only at a query whose cut label slice has neither one element nor as many
\* as each cut score slice; otherwise, and always when the three vectors
\* have one length, it returns, query q's arrays holding the
\* min(end, length) - min(start, length) elements its slice has left.
C6_SlicesAreCut ==
    /\ pcJ \in {"loop", "done", "ValueError"}
    /\ pcJ = "ValueError" => ~Fits(query_id)
    /\ (Len(predictions) = Len(y_test) /\ Len(search_score) = Len(y_test))
          => pcJ # "ValueError"
    /\ pcJ = "done" =>
          /\ Len(model_judgments) = Len(query_doc_counts)
          /\ Len(azs_judgments) = Len(query_doc_counts)
          /\ Len(baseline) = Len(query_doc_counts)
          /\ \A q \in 1..Len(query_doc_counts) :
                /\ Fits(q)
                /\ Len(model_judgments[q]) = SpanLen(predictions, q)
                /\ Len(azs_judgments[q]) = SpanLen(search_score, q)
                /\ baseline[q] = Span(y_test, q)

\* The call returned although the counts sum to more than the vectors hold:
\* one query's arrays are shortened and another's are empty.
C6_Witness ==
    /\ pcJ = "done"
    /\ Len(predictions) = Len(y_test)
    /\ Len(search_score) = Len(y_test)
    /\ SumSeq(query_doc_counts) > Len(y_test)
    /\ \E q1, q2 \in 1..Len(query_doc_counts) :
          /\ 0 < Len(model_judgments[q1])
          /\ Len(model_judgments[q1]) < query_doc_counts[q1]
          /\ Len(model_judgments[q2]) = 0
          /\ Len(baseline[q2]) = 0

====
